---- MODULE Spec2Model ----
(***************************************************************************)
(* Geometric text-selection engine of WebLinguaReader.                     *)
(*                                                                         *)
(*   - DOMRectUtils          src/src/selection/DOMRectUtils.ts             *)
(*   - computeLayoutBlocks   src/src/selection/LayoutBlock.ts              *)
(*   - getSelectNodeBy       src/unnamed/part_006                          *)
(*   - getPreferredTextNode1 src/SelectionUtils.ts (the same body is       *)
(*                           findClosestTextNode of src/unnamed/part_001)  *)
(*   - handleMouseDown       src/unnamed/part_001 (selection controller)   *)
(*                                                                         *)
(* A box is a record [left, top, right, bottom] of integers (a DOMRect     *)
(* with x = left, y = top, width = right - left, height = bottom - top).   *)
(* A nullable value is a sequence of length at most one: << >> is null.    *)
(* The text layer is a flat sequence of SPAN children in document order;   *)
(* every span carries a text node of `len` characters (len >= 1).          *)
(***************************************************************************)
EXTENDS Integers, Sequences, FiniteSets, TLC

VARIABLES
    layer,        \* the spans of the text layer, in document order
    blocks,       \* the block list returned by the last computeLayoutBlocks
    computed,     \* TRUE once computeLayoutBlocks ran on the current layer
    q,            \* the arguments and the host's state of the last resolution
    res,          \* what the last resolution returned
    sel,          \* the host's selection: null, or its anchor and focus
    sessions,     \* the drag sessions listening on the window, oldest first
    ev,           \* the last pointer event the viewer handled
    memo          \* history: an earlier call kept for comparison, or null

vars == <<layer, blocks, computed, q, res, sel, sessions, ev, memo>>

\* the state of the selection controller
ctl == <<sel, sessions, ev>>

----------------------------------------------------------------------------
(* Small arithmetic helpers (Math.min, Math.max, Math.abs).                *)

Min(a, b) == IF a <= b THEN a ELSE b

Max(a, b) == IF a >= b THEN a ELSE b

Abs(a) == IF a < 0 THEN -a ELSE a

Rect(l, t, r, b) == [left |-> l, top |-> t, right |-> r, bottom |-> b]

width(r) == r.right - r.left

height(r) == r.bottom - r.top

Null == << >>

Some(v) == << v >>

----------------------------------------------------------------------------
(* DOMRectUtils                                                            *)

\* new DOMRect(x, y, width, height): its edges
DOMRect(x, y, w, h) ==
    Rect(Min(x, x + w), Min(y, y + h), Max(x, x + w), Max(y, y + h))

\* a merge that keeps the first box as it is
keepFirstRect(a, b) == a

\* union of two non-null boxes (x is left and y is top for the boxes of
\* the layer, whose width and height are not negative)
unionRect(a, b) ==
    LET x == Min(a.left, b.left)
        y == Min(a.top, b.top)
        right == Max(a.right, b.right)
        bottom == Max(a.bottom, b.bottom)
    IN  DOMRect(x, y, right - x, bottom - y)

\* a union that gives null when an operand is null
unionOrNull(o1, o2) ==
    IF o1 = Null \/ o2 = Null THEN Null
    ELSE Some(unionRect(o1[1], o2[1]))

\* DOMRectUtils.union on nullable operands: null is the identity.
union(o1, o2) ==
    IF o1 = Null THEN o2
    ELSE IF o2 = Null THEN o1
    ELSE Some(unionRect(o1[1], o2[1]))

\* a comparison that does not count boxes that only touch
isIntersectStrict(a, b) ==
    /\ a.left < b.right
    /\ a.right > b.left
    /\ a.top < b.bottom
    /\ a.bottom > b.top

\* the comparison of DOMRectUtils.isIntersect on two non-null boxes
isIntersectRect(a, b) ==
    /\ a.left <= b.right
    /\ a.right >= b.left
    /\ a.top <= b.bottom
    /\ a.bottom >= b.top

\* DOMRectUtils.isIntersect on nullable operands
isIntersect(o1, o2) ==
    IF o1 = Null \/ o2 = Null THEN FALSE
    ELSE isIntersectRect(o1[1], o2[1])

\* the overlap of two non-null boxes that intersect
intersectRect(a, b) ==
    LET x == Max(a.left, b.left)
        y == Max(a.top, b.top)
        right == Min(a.right, b.right)
        bottom == Min(a.bottom, b.bottom)
    IN  DOMRect(x, y, right - x, bottom - y)

\* DOMRectUtils.intersect on nullable operands
intersect(o1, o2) ==
    IF o1 = Null \/ o2 = Null THEN Null
    ELSE IF ~isIntersectRect(o1[1], o2[1]) THEN Null
    ELSE Some(intersectRect(o1[1], o2[1]))

\* a comparison that wants the inner box away from the outer box's edges
containsStrict(outer, inner) ==
    /\ outer.left < inner.left
    /\ outer.right > inner.right
    /\ outer.top < inner.top
    /\ outer.bottom > inner.bottom

\* the comparison of DOMRectUtils.contains on two non-null boxes
containsRect(outer, inner) ==
    /\ outer.left <= inner.left
    /\ outer.right >= inner.right
    /\ outer.top <= inner.top
    /\ outer.bottom >= inner.bottom

\* DOMRectUtils.contains on nullable operands
contains(o1, o2) ==
    IF o1 = Null \/ o2 = Null THEN FALSE
    ELSE containsRect(o1[1], o2[1])

\* DOMRectUtils.containsCoord on a nullable box
containsCoord(o, x, y) ==
    IF o = Null THEN FALSE
    ELSE /\ o[1].left <= x
         /\ o[1].right >= x
         /\ o[1].top <= y
         /\ o[1].bottom >= y

----------------------------------------------------------------------------
(* computeLayoutBlocks                                                     *)

\* vertical gap below which a fragment continues the current block
VGap == 20

\* edge distance below which left (or right) edges count as aligned
AlignGap == 20

\* gap below which a fragment right of the block continues its line
LineGap == 5

\* the merge test of the scan (fragment r against the current block cur)
mergeCriteria(cur, r) ==
    /\ r.top - cur.bottom < VGap
    /\ \/ Abs(r.left - cur.left) < AlignGap
       \/ Abs(r.right - cur.right) < AlignGap
       \/ (r.left - cur.right < LineGap /\ r.left - cur.right > 0)
       \/ (cur.left - r.left) * (cur.right - r.right) < 0
       \/ isIntersectRect(cur, r)

\* closing the current block: coalesce with the last pushed block if the
\* two intersect, else push
closeBlock(out, cur) ==
    IF Len(out) > 0 /\ intersect(Some(cur), Some(out[Len(out)])) # Null
    THEN [out EXCEPT ![Len(out)] = unionRect(cur, out[Len(out)])]
    ELSE Append(out, cur)

\* the scan over the spans i..Len(spans); cur is the nullable current block
RECURSIVE scanSpans(_, _, _, _)
scanSpans(spans, i, cur, out) ==
    IF i > Len(spans)
    THEN IF cur # Null THEN Append(out, cur[1]) ELSE out
    ELSE LET r == spans[i].rect IN
         IF width(r) = 0 \/ height(r) = 0
         THEN scanSpans(spans, i + 1, cur, out)
         ELSE IF cur = Null
         THEN scanSpans(spans, i + 1, Some(r), out)
         ELSE IF mergeCriteria(cur[1], r)
         THEN scanSpans(spans, i + 1, Some(unionRect(cur[1], r)), out)
         ELSE scanSpans(spans, i + 1, Some(r), closeBlock(out, cur[1]))

\* the comparator of blocks.sort: by left, then by top (a.key - b.key <= 0)
blockBefore(a, b) ==
    IF a.left # b.left THEN a.left < b.left ELSE a.top <= b.top

\* Array.prototype.sort is stable: insert b after every element that does
\* not compare greater than it
RECURSIVE insertBlock(_, _)
insertBlock(sorted, b) ==
    IF sorted = << >> THEN << b >>
    ELSE IF blockBefore(sorted[Len(sorted)], b) THEN Append(sorted, b)
    ELSE Append(insertBlock(SubSeq(sorted, 1, Len(sorted) - 1), b),
                sorted[Len(sorted)])

RECURSIVE sortBlocks(_)
sortBlocks(bs) ==
    IF bs = << >> THEN << >>
    ELSE insertBlock(sortBlocks(SubSeq(bs, 1, Len(bs) - 1)), bs[Len(bs)])

\* the final pass: merge blocks[i] with blocks[i+1] while they intersect
\* (i-- followed by the loop's i++ re-examines index i), else advance
RECURSIVE mergeAdjacent(_, _)
mergeAdjacent(bs, i) ==
    IF i > Len(bs) - 1 THEN bs
    ELSE IF isIntersectRect(bs[i], bs[i + 1])
    THEN mergeAdjacent(
            SubSeq(bs, 1, i - 1) \o << unionRect(bs[i], bs[i + 1]) >>
                \o SubSeq(bs, i + 2, Len(bs)), i)
    ELSE mergeAdjacent(bs, i + 1)

computeLayoutBlocks(spans) ==
    IF Len(spans) = 0 THEN << >>
    ELSE mergeAdjacent(sortBlocks(scanSpans(spans, 1, Null, << >>)), 1)

----------------------------------------------------------------------------
(* layoutBlockOf, intersectLayoutBlockOf, layoutBlockOfCoord               *)

\* the first block that contains the box, or null
RECURSIVE layoutBlockOf(_, _)
layoutBlockOf(rect, bs) ==
    IF bs = << >> THEN Null
    ELSE IF contains(Some(Head(bs)), Some(rect)) THEN Some(Head(bs))
    ELSE layoutBlockOf(rect, Tail(bs))

\* the first block that intersects the box, or null
RECURSIVE intersectLayoutBlockOf(_, _)
intersectLayoutBlockOf(rect, bs) ==
    IF bs = << >> THEN Null
    ELSE IF isIntersect(Some(Head(bs)), Some(rect)) THEN Some(Head(bs))
    ELSE intersectLayoutBlockOf(rect, Tail(bs))

\* the first block that contains the coordinate, or null
RECURSIVE layoutBlockOfCoord(_, _, _)
layoutBlockOfCoord(x, y, bs) ==
    IF bs = << >> THEN Null
    ELSE IF containsCoord(Some(Head(bs)), x, y) THEN Some(Head(bs))
    ELSE layoutBlockOfCoord(x, y, Tail(bs))

----------------------------------------------------------------------------
(* Direction bits and resolver results                                     *)

UP == 1

DOWN == 2

LEFT == 4

RIGHT == 8

\* direction & bit, for a one-bit mask
hasBit(direction, bit) == (direction \div bit) % 2 = 1

\* A result: a point (span index in the layer, character offset), null,
\* undefined (a function that fell off its end) or a thrown error.
Point(i, off) == [kind |-> "point", span |-> i, offset |-> off]

NullResult == [kind |-> "null", span |-> 0, offset |-> 0]

Undefined == [kind |-> "undefined", span |-> 0, offset |-> 0]

Thrown == [kind |-> "throw", span |-> 0, offset |-> 0]

\* `result && result.node`: every span carries a text node
hasNode(result) == result.kind = "point"

\* selectionNode(span, atEnd): offset 0, or the length of the text
selectionNode(spans, i, atEnd) ==
    Point(i, IF atEnd THEN spans[i].len ELSE 0)

----------------------------------------------------------------------------
(* The host: hit testing and the caret-from-point primitive                *)

\* the answer of the host's caret primitive at the pointer: "none" when the
\* host has neither caretPositionFromPoint nor caretRangeFromPoint, else the
\* span whose node it reports (0: no node, or a node of no span) and the
\* offset in it
NoCaretApi == [api |-> FALSE, target |-> 0, offset |-> 0]

CaretAt(i, off) == [api |-> TRUE, target |-> i, offset |-> off]

\* the box of a span takes the pointer (hit testing leaves out the right
\* and bottom edge and boxes without area)
hitBox(r, x, y) ==
    /\ r.left <= x /\ x < r.right
    /\ r.top <= y /\ y < r.bottom

\* the part of the page the window shows, in client coordinates
Viewport == Rect(-20, -20, 720, 60)

\* the topmost span under the pointer, the last in document order; 0 when
\* the pointer is over no span
RECURSIVE topmostSpan(_, _, _, _)
topmostSpan(spans, i, x, y) ==
    IF i = 0 THEN 0
    ELSE IF hitBox(spans[i].rect, x, y) THEN i
    ELSE topmostSpan(spans, i - 1, x, y)

\* document.elementFromPoint: null (-1) for a point outside the viewport,
\* else the topmost span, else an element that is no span (0)
elementFromPoint(spans, x, y) ==
    IF ~hitBox(Viewport, x, y) THEN -1
    ELSE topmostSpan(spans, Len(spans), x, y)

highPrecisionSelectionNode(spans, i, x, caret) ==
    IF caret.api
    THEN IF caret.target = i THEN Point(i, caret.offset) ELSE Undefined
    ELSE LET r == spans[i].rect IN
         selectionNode(spans, i, 2 * x > 2 * r.left + width(r))

getSelectNodeAt(spans, x, y, caret) ==
    LET i == elementFromPoint(spans, x, y) IN
    IF i = -1 THEN Thrown
    ELSE IF i # 0 /\ spans[i].len > 0
    THEN highPrecisionSelectionNode(spans, i, x, caret)
    ELSE NullResult

----------------------------------------------------------------------------
(* getClosestTextNodeOfSpans and getSelectNodeOfSpans work on a list of    *)
(* candidate spans: a sequence of indexes into the layer, in document      *)
(* order.                                                                  *)

\* 100 * (dx * dx + dy * dy) with dx scaled by weightX; w100 is
\* 100 * weightX * weightX (0 for weight 0, 4 for weight 0.2)
distance(r, x, y, w100) ==
    LET dx == Min(Abs(r.left - x), Abs(r.right - x))
        dy2 == Abs(r.top + r.bottom - 2 * y)
    IN  w100 * dx * dx + 25 * dy2 * dy2

\* a scan that keeps the earlier span on equal distance
RECURSIVE closestSpanKeepFirst(_, _, _, _, _, _, _)
closestSpanKeepFirst(spans, idx, k, best, x, y, w100) ==
    IF k > Len(idx) THEN best
    ELSE IF distance(spans[idx[k]].rect, x, y, w100)
              < distance(spans[best].rect, x, y, w100)
    THEN closestSpanKeepFirst(spans, idx, k + 1, idx[k], x, y, w100)
    ELSE closestSpanKeepFirst(spans, idx, k + 1, best, x, y, w100)

\* the scan for the minimum: a later span replaces the best on dist <= min
RECURSIVE closestSpan(_, _, _, _, _, _, _)
closestSpan(spans, idx, k, best, x, y, w100) ==
    IF k > Len(idx) THEN best
    ELSE IF distance(spans[idx[k]].rect, x, y, w100)
              <= distance(spans[best].rect, x, y, w100)
    THEN closestSpan(spans, idx, k + 1, idx[k], x, y, w100)
    ELSE closestSpan(spans, idx, k + 1, best, x, y, w100)

\* atEnd by the direction bits: (!start && DOWN) || (start && UP)
atEndByDirection(direction, start) ==
    \/ (~start /\ hasBit(direction, DOWN))
    \/ (start /\ hasBit(direction, UP))

getClosestTextNodeOfSpans(spans, idx, x, y, direction, start, w100) ==
    IF Len(idx) = 0 THEN NullResult
    ELSE LET i == closestSpan(spans, idx, 2, idx[1], x, y, w100) IN
         selectionNode(spans, i,
             y >= spans[i].rect.bottom \/ atEndByDirection(direction, start))

\* spans.filter(pred), on index lists
RECURSIVE rowOf(_, _, _)
rowOf(spans, idx, y) ==
    IF idx = << >> THEN << >>
    ELSE LET r == spans[Head(idx)].rect IN
         (IF y >= r.top /\ y <= r.bottom THEN << Head(idx) >> ELSE << >>)
             \o rowOf(spans, Tail(idx), y)

\* rowSpans.sort by left edge (stable)
RECURSIVE insertByLeft(_, _, _)
insertByLeft(spans, sorted, i) ==
    IF sorted = << >> THEN << i >>
    ELSE IF spans[sorted[Len(sorted)]].rect.left <= spans[i].rect.left
    THEN Append(sorted, i)
    ELSE Append(insertByLeft(spans, SubSeq(sorted, 1, Len(sorted) - 1), i),
                sorted[Len(sorted)])

RECURSIVE sortByLeft(_, _)
sortByLeft(spans, idx) ==
    IF idx = << >> THEN << >>
    ELSE insertByLeft(spans, sortByLeft(spans, SubSeq(idx, 1, Len(idx) - 1)),
                      idx[Len(idx)])

\* the loop over the row: a hovered span, or the gutter right of it
RECURSIVE insideRow(_, _, _, _, _)
insideRow(spans, row, k, x, caret) ==
    IF k > Len(row) THEN Undefined
    ELSE LET r == spans[row[k]].rect IN
         IF x >= r.left /\ x <= r.right
         THEN highPrecisionSelectionNode(spans, row[k], x, caret)
         ELSE IF k < Len(row) /\ x > r.right /\ x < spans[row[k + 1]].rect.left
         THEN IF x - r.right <= spans[row[k + 1]].rect.left - x
              THEN selectionNode(spans, row[k], TRUE)
              ELSE selectionNode(spans, row[k + 1], FALSE)
         ELSE insideRow(spans, row, k + 1, x, caret)

getSelectNodeOfSpans(spans, idx, x, y, direction, start, w100, caret) ==
    IF Len(idx) = 0 THEN NullResult
    ELSE LET row == sortByLeft(spans, rowOf(spans, idx, y)) IN
         IF Len(row) > 0
         THEN LET first == row[1]
                  last == row[Len(row)]
                  atEnd == atEndByDirection(direction, start)
              IN  IF x < spans[first].rect.left
                  THEN selectionNode(spans, first, atEnd)
                  ELSE IF x > spans[last].rect.right
                  THEN selectionNode(spans, last, atEnd)
                  ELSE insideRow(spans, row, 1, x, caret)
         ELSE getClosestTextNodeOfSpans(spans, idx, x, y, direction, start, w100)

\* spans.filter(s => DOMRectUtils.contains(block, rect of s))
RECURSIVE spansIn(_, _, _)
spansIn(spans, idx, block) ==
    IF idx = << >> THEN << >>
    ELSE (IF contains(block, Some(spans[Head(idx)].rect))
          THEN << Head(idx) >> ELSE << >>)
             \o spansIn(spans, Tail(idx), block)

allSpans(spans) == [k \in 1..Len(spans) |-> k]

\* the blocks that intersect the selection's box, all of them (the callee of
\* `union(...intersectBlocks, selRect)` returns a list)
RECURSIVE intersectLayoutBlocksOf(_, _)
intersectLayoutBlocksOf(rect, bs) ==
    IF bs = << >> THEN << >>
    ELSE (IF isIntersect(Some(Head(bs)), Some(rect))
          THEN << Head(bs) >> ELSE << >>)
             \o intersectLayoutBlocksOf(rect, Tail(bs))

\* union(...boxes): the union of any number of boxes, null for none
RECURSIVE unionAll(_)
unionAll(boxes) ==
    IF boxes = << >> THEN Null
    ELSE union(Some(Head(boxes)), unionAll(Tail(boxes)))

\* weightX 0 and 0.2 as 100 * weightX * weightX
WeightNone == 0

WeightAll == 4

getSelectNodeBy(spans, x, y, direction, start, selRect, caret) ==
    LET result == getSelectNodeAt(spans, x, y, caret) IN
    IF result.kind = "throw" THEN Thrown
    ELSE IF hasNode(result) THEN result
    ELSE IF Len(spans) = 0 THEN NullResult
    ELSE
    LET layoutBlocks == computeLayoutBlocks(spans)
        mouseBlock == layoutBlockOfCoord(x, y, layoutBlocks)
        inMouse ==
            IF mouseBlock # Null
            THEN getSelectNodeOfSpans(spans,
                     spansIn(spans, allSpans(spans), mouseBlock),
                     x, y, direction, start, WeightNone, caret)
            ELSE NullResult
    IN
    IF hasNode(inMouse) THEN inMouse
    ELSE
    LET selBlock ==
            IF selRect # Null
            THEN union(unionAll(intersectLayoutBlocksOf(selRect[1], layoutBlocks)),
                       selRect)
            ELSE Null
        inSel ==
            IF selRect # Null
            THEN getSelectNodeOfSpans(spans,
                     spansIn(spans, allSpans(spans), selBlock),
                     x, y, direction, start, WeightNone, caret)
            ELSE NullResult
    IN
    IF hasNode(inSel) THEN inSel
    ELSE getClosestTextNodeOfSpans(spans, allSpans(spans), x, y,
                                   direction, start, WeightAll)

----------------------------------------------------------------------------
(* getPreferredTextNode1 (findClosestTextNode of the viewer): the resolver *)
(* that takes the block list from its caller.                              *)

\* the hovered span: the caret primitive's answer if it is in this span,
\* else the midpoint check
hoverSpan(spans, i, x, caret) ==
    IF caret.api /\ caret.target = i THEN Point(i, caret.offset)
    ELSE LET r == spans[i].rect IN
         selectionNode(spans, i, 2 * x > 2 * r.left + width(r))

\* the gap between row neighbours i and j when the host has a selection:
\* the selection's side wins unless the pointer's block holds the other
\* span; undefined when neither rule applies
stickyGutter(spans, i, j, x, selRect, mouseBlock) ==
    LET r == spans[i].rect
        nextR == spans[j].rect
    IN  IF x > selRect.right /\ x < nextR.left
        THEN IF contains(mouseBlock, Some(nextR))
             THEN selectionNode(spans, j, FALSE)
             ELSE selectionNode(spans, i, TRUE)
        ELSE IF x > r.right /\ x < selRect.left
        THEN IF contains(mouseBlock, Some(r))
             THEN selectionNode(spans, i, TRUE)
             ELSE selectionNode(spans, j, FALSE)
        ELSE Undefined

\* neighbours in one block: the nearer facing edge wins, a tie goes left
sameBlockGutterNode(spans, i, j, x) ==
    IF x - spans[i].rect.right <= spans[j].rect.left - x
    THEN selectionNode(spans, i, TRUE)
    ELSE selectionNode(spans, j, FALSE)

\* the end of the left span whatever the start flag and the direction
atEndAlways(start, direction) == TRUE

\* !(start && !!(direction & DOWN)): the start of the left span on the
\* first resolution of a drag that goes down, else its end
atEndUnlessFirstDown(start, direction) == ~(start /\ hasBit(direction, DOWN))

\* a tie-break on the spans' own facing edges instead of the block edges
crossBlockGutterNodeBySpans(spans, i, j, x, start, direction, leftBlock, rightBlock) ==
    IF x - spans[i].rect.right <= spans[j].rect.left - x
    THEN selectionNode(spans, i, atEndUnlessFirstDown(start, direction))
    ELSE selectionNode(spans, j, FALSE)

\* neighbours in two blocks: the nearer block edge wins, a tie goes left
crossBlockGutterNode(spans, i, j, x, start, direction, leftBlock, rightBlock) ==
    IF x - leftBlock.right <= rightBlock.left - x
    THEN selectionNode(spans, i, atEndUnlessFirstDown(start, direction))
    ELSE selectionNode(spans, j, FALSE)

gutterNode(spans, i, j, x, start, direction, layoutBlocks, selRect, mouseBlock) ==
    LET sticky == IF selRect # Null
                  THEN stickyGutter(spans, i, j, x, selRect[1], mouseBlock)
                  ELSE Undefined
        leftLayoutBlock == layoutBlockOf(spans[i].rect, layoutBlocks)
        rightLayoutBlock == layoutBlockOf(spans[j].rect, layoutBlocks)
    IN  IF sticky.kind = "point" THEN sticky
        ELSE IF leftLayoutBlock = Null \/ rightLayoutBlock = Null THEN Thrown
        ELSE IF leftLayoutBlock = rightLayoutBlock
        THEN sameBlockGutterNode(spans, i, j, x)
        ELSE crossBlockGutterNode(spans, i, j, x, start, direction,
                                  leftLayoutBlock[1], rightLayoutBlock[1])

\* the loop over the row; undefined when it ends without a return
RECURSIVE preferredInsideRow(_, _, _, _, _, _, _, _, _, _)
preferredInsideRow(spans, rowSpans, k, x, start, direction, layoutBlocks, selRect, mouseBlock, caret) ==
    IF k > Len(rowSpans) THEN Undefined
    ELSE LET r == spans[rowSpans[k]].rect IN
         IF x >= r.left /\ x <= r.right
         THEN hoverSpan(spans, rowSpans[k], x, caret)
         ELSE IF k < Len(rowSpans) /\ x > r.right
                 /\ x < spans[rowSpans[k + 1]].rect.left
         THEN gutterNode(spans, rowSpans[k], rowSpans[k + 1], x, start, direction,
                         layoutBlocks, selRect, mouseBlock)
         ELSE preferredInsideRow(spans, rowSpans, k + 1, x, start, direction,
                                 layoutBlocks, selRect, mouseBlock, caret)

\* the spans the nearest-span scan does not skip
RECURSIVE fallbackCandidates(_, _, _, _)
fallbackCandidates(spans, idx, mouseBlock, selBlock) ==
    IF idx = << >> THEN << >>
    ELSE LET r == Some(spans[Head(idx)].rect)
             skip == \/ (mouseBlock # Null /\ ~contains(mouseBlock, r))
                     \/ (selBlock # Null /\ ~contains(selBlock, r)
                            /\ ~contains(mouseBlock, r))
         IN  (IF skip THEN << >> ELSE << Head(idx) >>)
                 \o fallbackCandidates(spans, Tail(idx), mouseBlock, selBlock)

nearestFallback(spans, x, y, mouseBlock, selBlock) ==
    LET idx == fallbackCandidates(spans, allSpans(spans), mouseBlock, selBlock) IN
    IF Len(idx) = 0 THEN NullResult
    ELSE LET i == closestSpan(spans, idx, 2, idx[1], x, y, WeightAll)
             r == spans[i].rect
         IN  selectionNode(spans, i, x >= r.right \/ y >= r.bottom)

\* the row part: a point, a thrown error, or undefined when the row gives
\* no answer and the scan for the nearest span takes over
preferredInRow(spans, x, y, start, direction, layoutBlocks, selRect, mouseBlock, caret) ==
    LET rowSpans == sortByLeft(spans, rowOf(spans, allSpans(spans), y)) IN
    IF Len(rowSpans) = 0 THEN Undefined
    ELSE
    LET firstSpan == rowSpans[1]
        lastSpan == rowSpans[Len(rowSpans)]
        firstRect == spans[firstSpan].rect
        lastRect == spans[lastSpan].rect
        n == Len(layoutBlocks)
    IN  IF x < firstRect.left
        THEN IF n > 0 /\ x < layoutBlocks[1].left
                      /\ firstRect.left < layoutBlocks[1].right
             THEN selectionNode(spans, firstSpan, FALSE)
             ELSE IF contains(mouseBlock, Some(firstRect))
             THEN selectionNode(spans, firstSpan, FALSE)
             ELSE Undefined
        ELSE IF x > lastRect.right
        THEN IF n > 0 /\ x > layoutBlocks[n].right
                      /\ lastRect.right > layoutBlocks[n].left
             THEN selectionNode(spans, lastSpan, TRUE)
             ELSE IF contains(mouseBlock, Some(lastRect))
             THEN selectionNode(spans, lastSpan, TRUE)
             ELSE Undefined
        ELSE preferredInsideRow(spans, rowSpans, 1, x, start, direction,
                                layoutBlocks, selRect, mouseBlock, caret)

getPreferredTextNode1(spans, x, y, start, direction, layoutBlocks, selRect, caret) ==
    IF Len(spans) = 0 THEN NullResult
    ELSE
    LET mouseBlock == layoutBlockOfCoord(x, y, layoutBlocks)
        selBlock == union(IF selRect # Null
                          THEN intersectLayoutBlockOf(selRect[1], layoutBlocks)
                          ELSE Null,
                          selRect)
        inRow == preferredInRow(spans, x, y, start, direction, layoutBlocks,
                                selRect, mouseBlock, caret)
    IN  IF inRow.kind = "undefined"
        THEN nearestFallback(spans, x, y, mouseBlock, selBlock)
        ELSE inRow

----------------------------------------------------------------------------
(* The viewer's selection controller: handleMouseDown with its             *)
(* handleDragSelection, handleMouseMove and handleMouseUp.                 *)

\* drag threshold in pixels
MIND == 2

\* the vertical gap of the viewer's own computeLayoutBlocks
ViewerVGap == 50

\* the merge test of the viewer's scan
viewerMergeCriteria(cur, r) ==
    /\ r.top - cur.bottom < ViewerVGap
    /\ \/ Abs(r.left - cur.left) < AlignGap
       \/ Abs(r.right - cur.right) < AlignGap
       \/ (r.left - cur.right < LineGap /\ r.left - cur.right > 0)
       \/ (cur.left - r.left) * (cur.right - r.right) < 0
       \/ isIntersectRect(cur, r)

\* the viewer's scan: no span is skipped, a closed block is pushed as it is
RECURSIVE viewerScanSpans(_, _, _, _)
viewerScanSpans(spans, i, cur, out) ==
    IF i > Len(spans)
    THEN IF cur # Null THEN Append(out, cur[1]) ELSE out
    ELSE LET r == spans[i].rect IN
         IF cur = Null
         THEN viewerScanSpans(spans, i + 1, Some(r), out)
         ELSE IF viewerMergeCriteria(cur[1], r)
         THEN viewerScanSpans(spans, i + 1, Some(unionRect(cur[1], r)), out)
         ELSE viewerScanSpans(spans, i + 1, Some(r), Append(out, cur[1]))

\* the viewer's computeLayoutBlocks: scan and sort, no merge pass
viewerComputeLayoutBlocks(spans) ==
    IF Len(spans) = 0 THEN << >>
    ELSE sortBlocks(viewerScanSpans(spans, 1, Null, << >>))

\* a boundary point: the text node of span i, at offset off
Boundary(i, off) == [span |-> i, offset |-> off]

\* a selection of one range with its anchor and focus boundary points
Selection(a, f) == Some([anchor |-> a, focus |-> f])

\* a new selection collapsed at the resolved point
collapseAt(selection, result) ==
    Selection(Boundary(result.span, result.offset),
              Boundary(result.span, result.offset))

\* Selection.extend(node, offset): the anchor stays, the focus moves
extend(selection, result) ==
    Selection(selection[1].anchor, Boundary(result.span, result.offset))

\* the x coordinate of the character boundary at offset off of a span
charX(span, off) == span.rect.left + (width(span.rect) * off) \div span.len

\* boundary point a is not after boundary point b in document order
notAfter(a, b) == a.span < b.span \/ (a.span = b.span /\ a.offset <= b.offset)

\* the union of the boxes of spans[i..j]
RECURSIVE unionOfSpans(_, _, _)
unionOfSpans(spans, i, j) ==
    IF i > j THEN Null
    ELSE union(Some(spans[i].rect), unionOfSpans(spans, i + 1, j))

\* range.getBoundingClientRect(): the box around the text from boundary
\* point a to boundary point b (a not after b)
rangeRect(spans, a, b) ==
    LET ra == spans[a.span].rect
        rb == spans[b.span].rect
    IN  IF a.span = b.span
        THEN Some(Rect(charX(spans[a.span], a.offset), ra.top,
                       charX(spans[a.span], b.offset), ra.bottom))
        ELSE union(union(Some(Rect(charX(spans[a.span], a.offset), ra.top,
                                   ra.right, ra.bottom)),
                         unionOfSpans(spans, a.span + 1, b.span - 1)),
                   Some(Rect(rb.left, rb.top,
                             charX(spans[b.span], b.offset), rb.bottom)))

\* getSelectionRect of the viewer: the box of the first range, or null
viewerSelectionRect(spans, selection) ==
    IF selection = Null THEN Null
    ELSE IF notAfter(selection[1].anchor, selection[1].focus)
    THEN rangeRect(spans, selection[1].anchor, selection[1].focus)
    ELSE rangeRect(spans, selection[1].focus, selection[1].anchor)

\* getSelectionRect of the resolver: the union of the boxes of the
\* selection's ranges (the host holds at most one range), null for none
getSelectionRect(spans, selection) ==
    unionAll(IF selection = Null THEN << >>
             ELSE << viewerSelectionRect(spans, selection)[1] >>)

\* the answer of the host's caret primitive during one event: c = -1 for no
\* answer in a span (no primitive, or a node of no span), else the offset
\* it reports in the topmost span under the point it is asked about
hostCaret(spans, x, y, c) ==
    LET i == topmostSpan(spans, Len(spans), x, y) IN
    IF c = -1 \/ i = 0 THEN NoCaretApi
    ELSE CaretAt(i, Min(c, spans[i].len))

\* findClosestTextNode(x, y, layer)(start, direction, layoutBlocks)
findClosestTextNode(spans, x, y, start, direction, layoutBlocks, selection, c) ==
    getPreferredTextNode1(spans, x, y, start, direction, layoutBlocks,
                          viewerSelectionRect(spans, selection),
                          hostCaret(spans, x, y, c))

\* selectWordAtNode: the scans for the run of the anchor character's class
\* (text is the sequence of isWordChar of the characters; offsets count
\* from 0)
RECURSIVE scanBackwards(_, _, _)
scanBackwards(text, start, type) ==
    IF start > 0 /\ text[start] = type
    THEN scanBackwards(text, start - 1, type)
    ELSE start

RECURSIVE scanForwards(_, _, _)
scanForwards(text, end, type) ==
    IF end < Len(text) /\ text[end + 1] = type
    THEN scanForwards(text, end + 1, type)
    ELSE end

\* the selection selectWordAtNode leaves for a point in span i
selectWordAtNode(spans, i, offset, selection) ==
    LET text == spans[i].text
        len == Len(text)
        anchor == IF offset >= len /\ offset > 0 THEN len - 1
                  ELSE IF offset < 0 THEN 0 ELSE offset
    IN  IF len = 0 THEN selection
        ELSE Selection(Boundary(i, scanBackwards(text, anchor, text[anchor + 1])),
                       Boundary(i, scanForwards(text, anchor + 1, text[anchor + 1])))

\* the direction bits of a move from the start of the gesture
directionOf(dx, dy) ==
    (IF dx >= MIND THEN RIGHT ELSE 0) + (IF dx <= -MIND THEN LEFT ELSE 0)
        + (IF dy >= MIND THEN DOWN ELSE 0) + (IF dy <= -MIND THEN UP ELSE 0)

\* a drag session: the start of the gesture, the dragging flag, the point
\* bound in superpositionState_findStartClosestNode, and the pointer-down
\* that opened it ("click", "shift" for a click with the shift key, "word"
\* for a double click)
Session(x, y, opened) ==
    [startX |-> x, startY |-> y, isDragging |-> FALSE,
     anchorX |-> x, anchorY |-> y, opened |-> opened]

\* what a handler leaves: the session, the selection, the viewer's block
\* list and the kinds of the results of its resolutions
Outcome(s, selection, bs, kinds) ==
    [session |-> s, sel |-> selection, blocks |-> bs, resolved |-> kinds]

\* the extension point starting a new selection instead of moving the focus
restartAt(spans, s, selection, layoutBlocks, kinds, x, y, c) ==
    LET restarted(result) ==
            Outcome(s,
                    IF hasNode(result) /\ selection # Null
                    THEN collapseAt(selection, result)
                    ELSE selection,
                    layoutBlocks, kinds \cup {result.kind})
    IN  restarted(findClosestTextNode(spans, x, y, FALSE, 0, layoutBlocks, selection, c))

\* the second half of handleMouseMove: the extension point
extendTo(spans, s, selection, layoutBlocks, kinds, x, y, c) ==
    LET extended(result) ==
            Outcome(s,
                    IF hasNode(result) /\ selection # Null
                    THEN extend(selection, result)
                    ELSE selection,
                    layoutBlocks, kinds \cup {result.kind})
    IN  extended(findClosestTextNode(spans, x, y, FALSE, 0, layoutBlocks, selection, c))

\* a handler that ignores every move near the start of the gesture
ignoresNearStart(s, x, y) ==
    (x - s.startX) * (x - s.startX) + (y - s.startY) * (y - s.startY) < MIND * MIND

\* the early return of handleMouseMove: the gesture is not dragging yet
\* and Math.hypot(dx, dy) < MIND
ignoresMove(s, x, y) ==
    /\ ~s.isDragging
    /\ (x - s.startX) * (x - s.startX) + (y - s.startY) * (y - s.startY) < MIND * MIND

handleMouseMove(spans, s, selection, bs, x, y, c) ==
    IF ignoresMove(s, x, y)
    THEN Outcome(s, selection, bs, {})
    ELSE
    LET dragging == [s EXCEPT !.isDragging = TRUE]
        layoutBlocks == viewerComputeLayoutBlocks(spans)
        \* the selection is empty: the anchor is resolved first; without a
        \* node the anchor point moves to the pointer
        anchored(result) ==
            IF result.kind = "throw"
            THEN Outcome(dragging, selection, layoutBlocks, {"throw"})
            ELSE extendTo(spans,
                          IF hasNode(result) THEN dragging
                          ELSE [dragging EXCEPT !.anchorX = x, !.anchorY = y],
                          IF hasNode(result)
                          THEN Selection(Boundary(result.span, result.offset),
                                         Boundary(result.span, result.offset))
                          ELSE selection,
                          layoutBlocks, {result.kind}, x, y, c)
    IN
    IF selection # Null
    THEN extendTo(spans, dragging, selection, layoutBlocks, {}, x, y, c)
    ELSE anchored(findClosestTextNode(spans, s.anchorX, s.anchorY, TRUE,
                      directionOf(x - s.startX, y - s.startY), layoutBlocks, Null, c))

\* a pointer-move runs the handleMouseMove of every listening session, in
\* the order of registration
RECURSIVE dispatchMove(_, _, _, _, _, _, _, _, _)
dispatchMove(spans, ss, k, selection, bs, kinds, x, y, c) ==
    IF k > Len(ss)
    THEN [sessions |-> ss, sel |-> selection, blocks |-> bs, resolved |-> kinds]
    ELSE LET rest(o) ==
                 dispatchMove(spans, [ss EXCEPT ![k] = o.session], k + 1, o.sel,
                              o.blocks, kinds \cup o.resolved, x, y, c)
         IN  rest(handleMouseMove(spans, ss[k], selection, bs, x, y, c))

\* every button taken for the primary one
anyButton(button) == TRUE

\* e.button === 0: the primary button
isPrimary(button) == button = 0

\* handleMouseDown: what it leaves of the selection and the sessions, and
\* the kinds of the results of its resolutions
handleMouseDown(spans, button, detail, shiftKey, x, y, c, selection, ss, layoutBlocks) ==
    LET leaves(selection2, ss2, kinds) ==
            [sel |-> selection2, sessions |-> ss2, resolved |-> kinds]
        \* result: what findClosestTextNode answers for the pointer
        primary(result) ==
            IF detail = 2 /\ result.kind = "throw"
            THEN leaves(selection, ss, {"throw"})
            ELSE IF detail = 2 /\ hasNode(result)
            THEN leaves(selectWordAtNode(spans, result.span, result.offset, selection),
                        Append(ss, Session(x, y, "word")), {"point"})
            ELSE
            LET kinds == IF detail = 2 THEN {result.kind} ELSE {} IN
            IF shiftKey /\ selection # Null
            THEN leaves(IF hasNode(result)
                        THEN extend(selection, result)
                        ELSE selection,
                        ss, kinds \cup {result.kind})
            ELSE leaves(Null,
                        Append(ss, Session(x, y, IF shiftKey THEN "shift" ELSE "click")),
                        kinds)
    IN
    IF ~isPrimary(button) THEN leaves(selection, ss, {})
    ELSE primary(findClosestTextNode(spans, x, y, TRUE, 0, layoutBlocks, selection, c))

----------------------------------------------------------------------------
(* The block builder on its own: a text layer is painted span by span and  *)
(* computeLayoutBlocks is applied to it.                                   *)

\* most spans of a layer handed to the block builder
MaxBlockSpans == 3

BlockXs == {0, 4, 24, 44}

BlockYs == {0, 20, 40, 60, 80}

\* boxes of one line's height or of the page's whole height, and one
\* invisible (zero-width) box
BlockBoxes ==
    { Rect(l, t, r, b) : l \in BlockXs, t \in BlockYs, r \in BlockXs, b \in BlockYs }

BlockPool ==
    { bx \in BlockBoxes :
        \/ bx.left < bx.right /\ bx.bottom - bx.top \in {20, 80}
        \/ bx = Rect(24, 0, 24, 20) }

\* a span of n characters: letters, and a punctuation mark at the end of
\* a text of two or more
Span(bx, n) ==
    [rect |-> bx, len |-> n, text |-> [k \in 1..n |-> k < n \/ n = 1]]

\* the event record: the handler that ran, the kinds of the results of its
\* resolutions, and for a pointer-up whether the
\* gesture was a plain click (one session, opened by a single click without
\* the shift key, that never passed the drag threshold)
Event(type, kinds, click) ==
    [type |-> type, resolved |-> kinds, click |-> click,
     button |-> -1, detail |-> 0, shiftKey |-> FALSE]

\* the record of a pointer-down, with the event's button, click count and
\* shift key
DownEvent(kinds, button, detail, shiftKey) ==
    [Event("mousedown", kinds, FALSE)
        EXCEPT !.button = button, !.detail = detail, !.shiftKey = shiftKey]

NoEvent == Event("none", {}, FALSE)

\* nothing selected, no session, no event handled
CtlIdle ==
    /\ sel = Null
    /\ sessions = << >>
    /\ ev = NoEvent

\* no resolution was asked for
NoQuery ==
    [fn |-> "none", x |-> 0, y |-> 0, direction |-> 0, start |-> FALSE,
     selRect |-> Null, caret |-> NoCaretApi, layoutBlocks |-> << >>]

InitBlocks ==
    /\ layer = << >>
    /\ blocks = << >>
    /\ computed = FALSE
    /\ q = NoQuery
    /\ res = NullResult
    /\ CtlIdle
    /\ memo = Null

\* the renderer appends one span to the text layer
PaintSpan ==
    /\ Len(layer) < MaxBlockSpans
    /\ \E bx \in BlockPool : layer' = Append(layer, Span(bx, 1))
    /\ blocks' = << >>
    /\ computed' = FALSE
    /\ memo' = Null
    /\ UNCHANGED <<q, res, ctl>>

ComputeBlocks ==
    /\ ~computed
    /\ blocks' = computeLayoutBlocks(layer)
    /\ computed' = TRUE
    /\ UNCHANGED <<memo, layer, q, res, ctl>>

\* the block list of an earlier call on the layer as it is, kept in memo
KeptBlocks(bs) == Some([fn |-> "computeLayoutBlocks", blocks |-> bs])

\* a builder that keeps its list between calls and appends to it
ComputeBlocksAppending ==
    /\ computed
    /\ memo = Null
    /\ blocks' = blocks \o computeLayoutBlocks(layer)
    /\ memo' = KeptBlocks(blocks)
    /\ UNCHANGED <<layer, computed, q, res, ctl>>

\* computeLayoutBlocks is called once more on the same layer; the list of
\* the call before is kept in memo
ComputeBlocksAgain ==
    /\ computed
    /\ memo = Null
    /\ blocks' = computeLayoutBlocks(layer)
    /\ memo' = KeptBlocks(blocks)
    /\ UNCHANGED <<layer, computed, q, res, ctl>>

NextBlocks == PaintSpan \/ ComputeBlocks \/ ComputeBlocksAgain

SpecBlocks == InitBlocks /\ [][NextBlocks]_vars

----------------------------------------------------------------------------
(* The resolver on its own: getSelectNodeBy is applied to a text layer, a  *)
(* pointer position, direction bits, the start flag, the box of the host's *)
(* selection and the host's caret primitive.                               *)

\* characters in every span's text
TextLen == 2

W1 == Span(Rect(0, 0, 100, 20), TextLen)

W2 == Span(Rect(104, 0, 300, 20), TextLen)

LeftLine == Span(Rect(0, 0, 300, 20), TextLen)

RightLine == Span(Rect(400, 0, 700, 20), TextLen)

NextShort == Span(Rect(100, 22, 200, 42), TextLen)

NextLine == Span(Rect(0, 22, 300, 42), TextLen)

\* an invisible span (zero width) in the column gap
Invisible == Span(Rect(350, 0, 350, 20), TextLen)

ResolvePool == {W1, W2, LeftLine, RightLine, NextShort, NextLine, Invisible}

\* most spans of a layer drawn from the pool
MaxResolveSpans == 2

\* a two-word line between two margin notes: the notes and the long line
\* under them form a block whose box covers the gap between the two words
MarginNotes ==
    << Span(Rect(-50, 5, -10, 15), TextLen),
       Span(Rect(-50, 25, 400, 30), TextLen),
       Span(Rect(350, 5, 400, 15), TextLen),
       Span(Rect(-50, 60, -40, 70), TextLen),
       W1, W2 >>

\* a note in the column gap under the first line, before the text in
\* document order: the left column is the block [0, 0, 300, 42], the note
\* and the right column are blocks of their own
GapNote == Span(Rect(360, 21, 390, 40), TextLen)

NoteInGap == << GapNote, NextLine, W1, RightLine >>

ResolveLayers ==
    UNION { [1..n -> ResolvePool] : n \in 0..MaxResolveSpans }
        \cup {MarginNotes, NoteInGap}

QueryXs == {-30, -10, 50, 101, 102, 103, 150, 260, 350, 710}

QueryYs == {10, 20, 21}

Directions == {0, UP, RIGHT + DOWN}

\* what the host's caret primitive may answer at (x, y): no primitive, no
\* node of a span, or a node of a span whose box holds the point
CaretAnswers(spans, x, y) ==
    {NoCaretApi, CaretAt(0, 0)}
        \cup { CaretAt(i, 1) : i \in { k \in 1..Len(spans) :
                                        containsCoord(Some(spans[k].rect), x, y) } }

\* the box of the host's selection: none, or the box around the spans from
\* one span to a later one in document order (around one span included)
SelectionRects(spans) ==
    {Null} \cup { unionOfSpans(spans, i, j) : i \in 1..Len(spans), j \in 1..Len(spans) }

InitResolve ==
    /\ layer \in ResolveLayers
    /\ blocks = << >>
    /\ computed = FALSE
    /\ q = NoQuery
    /\ res = NullResult
    /\ CtlIdle
    /\ memo = Null

Resolve ==
    /\ q.fn = "none"
    /\ \E x \in QueryXs, y \in QueryYs, direction \in Directions,
          start \in BOOLEAN, selRect \in SelectionRects(layer) :
        \E caret \in CaretAnswers(layer, x, y) :
            /\ q' = [fn |-> "getSelectNodeBy", x |-> x, y |-> y,
                     direction |-> direction, start |-> start,
                     selRect |-> selRect, caret |-> caret,
                     layoutBlocks |-> computeLayoutBlocks(layer)]
            /\ res' = getSelectNodeBy(layer, x, y, direction, start, selRect, caret)
    /\ UNCHANGED <<memo, layer, blocks, computed, ctl>>

NextResolve == Resolve

SpecResolve == InitResolve /\ [][NextResolve]_vars

----------------------------------------------------------------------------
(* getPreferredTextNode1 on its own, with the block list of the layer or   *)
(* the viewer's initial (empty) block list.                                *)

\* a short line over a long one, left of a second column: the left block
\* reaches to x = 300, the first line's span to x = 100
RaggedColumns == << W1, NextLine, RightLine >>

PreferredLayers ==
    UNION { [1..n -> ResolvePool] : n \in 0..MaxResolveSpans } \cup {RaggedColumns}

PreferredXs == {-10, 50, 150, 260, 320, 349, 350, 351, 710}

InitPreferred ==
    /\ layer \in PreferredLayers
    /\ blocks = << >>
    /\ computed = FALSE
    /\ q = NoQuery
    /\ res = NullResult
    /\ CtlIdle
    /\ memo = Null

ResolvePreferred ==
    /\ q.fn = "none"
    /\ \E x \in PreferredXs, y \in QueryYs, direction \in Directions,
          start \in BOOLEAN, selRect \in SelectionRects(layer),
          layoutBlocks \in {computeLayoutBlocks(layer), << >>} :
        \E caret \in CaretAnswers(layer, x, y) :
            /\ q' = [fn |-> "getPreferredTextNode1", x |-> x, y |-> y,
                     direction |-> direction, start |-> start,
                     selRect |-> selRect, caret |-> caret,
                     layoutBlocks |-> layoutBlocks]
            /\ res' = getPreferredTextNode1(layer, x, y, start, direction,
                                            layoutBlocks, selRect, caret)
    /\ UNCHANGED <<memo, layer, blocks, computed, ctl>>

NextPreferred == ResolvePreferred

SpecPreferred == InitPreferred /\ [][NextPreferred]_vars

----------------------------------------------------------------------------
(* The viewer: pointer events on one page's text layer.                    *)

\* most sessions listening at a time (a pointer-up that never arrives
\* leaves its session listening)
MaxSessions == 2

ViewerLayers == { << LeftLine >>, << LeftLine, RightLine >>, RaggedColumns }

\* pointer positions: inside the first line, one pixel beside that, in the
\* column gap (right of the text on a one-column page), on the second line
Pointers == { <<150, 10>>, <<151, 10>>, <<350, 10>>, <<260, 32>> }

\* the primary button and the secondary button
Buttons == {0, 2}

\* what the host's caret primitive answers during one event
CaretChoices == {-1, 1}

Init ==
    /\ layer \in ViewerLayers
    /\ blocks = << >>
    /\ computed = FALSE
    /\ q = NoQuery
    /\ res = NullResult
    /\ CtlIdle
    /\ memo = Null

\* a pointer-down on the page at p, the host's caret primitive answering c
MouseDownAt(button, detail, shiftKey, p, c) ==
    /\ Len(sessions) < MaxSessions
    /\ \E o \in { handleMouseDown(layer, button, detail, shiftKey, p[1], p[2], c,
                                   sel, sessions, blocks) } :
            /\ sel' = o.sel
            /\ sessions' = o.sessions
            /\ ev' = DownEvent(o.resolved, button, detail, shiftKey)
    /\ UNCHANGED <<memo, layer, blocks, computed, q, res>>

MouseDown ==
    \E button \in Buttons, detail \in {1, 2}, shiftKey \in BOOLEAN,
       p \in Pointers, c \in CaretChoices :
        MouseDownAt(button, detail, shiftKey, p, c)

\* a pointer-move to p: the handleMouseMove of every listening session
\* runs (none when no session is listening)
MouseMoveAt(p, c) ==
    /\ \E o \in { dispatchMove(layer, sessions, 1, sel, blocks, {}, p[1], p[2], c) } :
            /\ sel' = o.sel
            /\ sessions' = o.sessions
            /\ blocks' = o.blocks
            /\ ev' = Event("mousemove", o.resolved, FALSE)
    /\ UNCHANGED <<memo, layer, computed, q, res>>

MouseMove == \E p \in Pointers, c \in CaretChoices : MouseMoveAt(p, c)

\* a handleMouseUp that leaves its listeners on the window
MouseUpKeepsListening ==
    /\ Len(sessions) > 0
    /\ sessions' = sessions
    /\ ev' = Event("mouseup", {},
                   /\ Len(sessions) = 1
                   /\ ~sessions[1].isDragging
                   /\ sessions[1].opened = "click")
    /\ UNCHANGED <<memo, layer, blocks, computed, q, res, sel>>

\* every listening session's handleMouseUp removes its two listeners
MouseUp ==
    /\ Len(sessions) > 0
    /\ sessions' = << >>
    /\ ev' = Event("mouseup", {},
                   /\ Len(sessions) = 1
                   /\ ~sessions[1].isDragging
                   /\ sessions[1].opened = "click")
    /\ UNCHANGED <<memo, layer, blocks, computed, q, res, sel>>

Next == MouseDown \/ MouseMove \/ MouseUp

Spec == Init /\ [][Next]_vars

----------------------------------------------------------------------------
(* selectWordAtNode on its own. A text is a sequence of UTF-16 code units, *)
(* which is what text[i] reads: "word" is a letter, digit or underscore of *)
(* the basic plane, "other" any other character of the basic plane, and    *)
(* "hi", "lo" are the two surrogate halves of a letter outside the basic   *)
(* plane.                                                                  *)

\* most code units of a text
MaxWordLen == 4

CodeUnits == {"word", "other", "hi", "lo"}

\* every "hi" is followed by its "lo" and every "lo" follows its "hi"
wellFormed(text) ==
    \A k \in 1..Len(text) :
        /\ text[k] = "hi" => (k < Len(text) /\ text[k + 1] = "lo")
        /\ text[k] = "lo" => (k > 1 /\ text[k - 1] = "hi")

\* the code units of "Hello, world!"
HelloWorld ==
    << "word", "word", "word", "word", "word", "other", "other",
       "word", "word", "word", "word", "word", "other" >>

WordTexts ==
    { text \in UNION { [1..n -> CodeUnits] : n \in 1..MaxWordLen } : wellFormed(text) }
        \cup {HelloWorld}

\* /[\p{L}\p{N}_]/u.test(char) on one code unit: a lone surrogate is no
\* letter
isWordChar(char) == char = "word"

\* a span holding the text
WordSpan(text) ==
    [rect |-> Rect(0, 0, 300, 20), len |-> Len(text),
     text |-> [k \in 1..Len(text) |-> isWordChar(text[k])]]

\* selectWordAtNode was not called
NoWordQuery == [fn |-> "none", text |-> << >>, offset |-> 0]

InitWord ==
    /\ \E text \in WordTexts :
          /\ layer = << WordSpan(text) >>
          /\ q = [NoWordQuery EXCEPT !.text = text]
    /\ blocks = << >>
    /\ computed = FALSE
    /\ res = NullResult
    /\ CtlIdle
    /\ memo = Null

\* selectWordAtNode(node, offset) on the span's text node
SelectWord ==
    /\ q.fn = "none"
    /\ \E offset \in 0..Len(q.text) :
          /\ q' = [q EXCEPT !.fn = "selectWordAtNode", !.offset = offset]
          /\ sel' = selectWordAtNode(layer, 1, offset, sel)
    /\ UNCHANGED <<memo, layer, blocks, computed, res, sessions, ev>>

NextWord == SelectWord

SpecWord == InitWord /\ [][NextWord]_vars

----------------------------------------------------------------------------
(* getSelectNodeBy called again and again on one page while the host's     *)
(* selection changes between the calls; one earlier call is kept in memo.  *)

PureLayer == << LeftLine, RightLine >>

\* the selections the host may hold: none, or the text from the first
\* span's second character to the last span's first
PureSelections ==
    { Null, Selection(Boundary(1, 1), Boundary(Len(PureLayer), 1)) }

\* inside the first span, in the column gap, right of the last span
PureXs == {150, 350, 710}

PureDirections == {0, RIGHT + DOWN}

\* most calls counted after the kept one
MaxLaterCalls == 2

\* a call kept in memo: its arguments, the host's state, its result and
\* the number of calls made since
Kept(query, result) == Some([q |-> query, res |-> result, later |-> 0])

\* one more call was made since the kept one
oneLater(kept) ==
    IF kept = Null THEN Null
    ELSE Some([kept[1] EXCEPT !.later = kept[1].later + 1])

InitPure ==
    /\ layer = PureLayer
    /\ blocks = << >>
    /\ computed = FALSE
    /\ q = NoQuery
    /\ res = NullResult
    /\ sel = Null
    /\ sessions = << >>
    /\ ev = NoEvent
    /\ memo = Null

\* the user or the page changes the host's selection
HostSelects ==
    /\ \E selection \in PureSelections \ {sel} : sel' = selection
    /\ UNCHANGED <<layer, blocks, computed, q, res, sessions, ev, memo>>

\* a resolver with a cache keyed by the pointer: a call at the pointer of
\* the call before answers what that call answered
StickyCall ==
    /\ memo # Null => memo[1].later < MaxLaterCalls
    /\ memo' = oneLater(memo)
    /\ \E x \in PureXs, direction \in PureDirections, start \in BOOLEAN :
        \E caret \in CaretAnswers(layer, x, 10) :
            /\ q' = [fn |-> "getSelectNodeBy", x |-> x, y |-> 10,
                     direction |-> direction, start |-> start,
                     selRect |-> getSelectionRect(layer, sel), caret |-> caret,
                     layoutBlocks |-> computeLayoutBlocks(layer)]
            /\ res' = IF q.fn # "none" /\ q.x = x THEN res
                      ELSE getSelectNodeBy(layer, x, 10, direction, start,
                                           getSelectionRect(layer, sel), caret)
    /\ UNCHANGED <<layer, blocks, computed, sel, sessions, ev>>

\* a call of getSelectNodeBy(clientX, clientY, layer, direction, start)
PureCall ==
    /\ memo # Null => memo[1].later < MaxLaterCalls
    /\ memo' = oneLater(memo)
    /\ \E x \in PureXs, direction \in PureDirections, start \in BOOLEAN :
        \E caret \in CaretAnswers(layer, x, 10) :
            /\ q' = [fn |-> "getSelectNodeBy", x |-> x, y |-> 10,
                     direction |-> direction, start |-> start,
                     selRect |-> getSelectionRect(layer, sel), caret |-> caret,
                     layoutBlocks |-> computeLayoutBlocks(layer)]
            /\ res' = getSelectNodeBy(layer, x, 10, direction, start,
                                      getSelectionRect(layer, sel), caret)
    /\ UNCHANGED <<layer, blocks, computed, sel, sessions, ev>>

\* the last call is kept for comparison with later calls
Remember ==
    /\ memo = Null
    /\ q.fn # "none"
    /\ memo' = Kept(q, res)
    /\ UNCHANGED <<layer, blocks, computed, q, res, sel, sessions, ev>>

NextPure == HostSelects \/ PureCall \/ Remember

SpecPure == InitPure /\ [][NextPure]_vars

----------------------------------------------------------------------------
(* DOMRectUtils on its own: an operation is applied to two operands, each  *)
(* a box or null.                                                          *)

GeoXs == {0, 10, 20, 30}

GeoYs == {0, 10, 20}

\* boxes as getBoundingClientRect and DOMRectUtils give them: width and
\* height not negative (zero included)
GeoBoxes ==
    { bx \in { Rect(l, t, r, b) : l \in GeoXs, t \in GeoYs, r \in GeoXs, b \in GeoYs } :
        bx.left <= bx.right /\ bx.top <= bx.bottom }

GeoOperands == {Null} \cup { Some(bx) : bx \in GeoBoxes }

InitGeometry ==
    /\ \E a \in GeoOperands, b \in GeoOperands :
          q = [fn |-> "none", a |-> a, b |-> b]
    /\ layer = << >>
    /\ blocks = << >>
    /\ computed = FALSE
    /\ res = Null
    /\ CtlIdle
    /\ memo = Null

\* DOMRectUtils.union(rect1, rect2)
UnionBoxes ==
    /\ q.fn = "none"
    /\ q' = [q EXCEPT !.fn = "union"]
    /\ res' = union(q.a, q.b)
    /\ UNCHANGED <<layer, blocks, computed, ctl, memo>>

\* DOMRectUtils.intersect(rect1, rect2)
IntersectBoxes ==
    /\ q.fn = "none"
    /\ q' = [q EXCEPT !.fn = "intersect"]
    /\ res' = intersect(q.a, q.b)
    /\ UNCHANGED <<layer, blocks, computed, ctl, memo>>

\* DOMRectUtils.contains(outer, inner), with a as outer and b as inner
ContainsBoxes ==
    /\ q.fn = "none"
    /\ q' = [q EXCEPT !.fn = "contains"]
    /\ res' = contains(q.a, q.b)
    /\ UNCHANGED <<layer, blocks, computed, ctl, memo>>

NextGeometry == UnionBoxes \/ IntersectBoxes \/ ContainsBoxes

SpecGeometry == InitGeometry /\ [][NextGeometry]_vars

----------------------------------------------------------------------------
(* C1: no two blocks of the list returned by computeLayoutBlocks           *)
(* intersect (pairwise, boundary touches counted as intersecting).         *)
C1_PairwiseDisjoint ==
    computed =>
        \A i \in 1..Len(blocks) : \A j \in 1..Len(blocks) :
            i # j => ~isIntersectRect(blocks[i], blocks[j])

\* a computed list of three blocks
C1_Witness == computed /\ Len(blocks) = 3

(* C2: the list returned by computeLayoutBlocks is sorted by left edge     *)
(* and, for equal left edges, by top edge, also after the final merge pass *)
C2_ReadingOrder ==
    computed =>
        \A i \in 1..(Len(blocks) - 1) :
            \/ blocks[i].left < blocks[i + 1].left
            \/ (blocks[i].left = blocks[i + 1].left
                /\ blocks[i].top <= blocks[i + 1].top)

----------------------------------------------------------------------------
(* Vocabulary of the resolver claims, on the query q and the layer.        *)

asked == q.fn = "getSelectNodeBy"

spanIds == 1..Len(layer)

rectOf(i) == layer[i].rect

strictlyInside(r, x, y) ==
    /\ r.left < x /\ x < r.right
    /\ r.top < y /\ y < r.bottom

inViewport == hitBox(Viewport, q.x, q.y)

\* the row of the pointer: the spans whose top..bottom holds the pointer's y
row == { i \in spanIds : q.y >= rectOf(i).top /\ q.y <= rectOf(i).bottom }

\* the pointer is inside no span's box
inNoSpan == \A k \in spanIds : ~containsCoord(Some(rectOf(k)), q.x, q.y)

(* C3: a pointer strictly inside the box of a span with area (and of no    *)
(* other span) resolves to a point on that span.                           *)
C3_DirectHit ==
    (asked /\ inViewport) =>
        \A i \in spanIds :
            ( /\ width(rectOf(i)) > 0 /\ height(rectOf(i)) > 0
              /\ strictlyInside(rectOf(i), q.x, q.y)
              /\ \A j \in spanIds \ {i} : ~containsCoord(Some(rectOf(j)), q.x, q.y) )
            => (res.kind = "point" /\ res.span = i)

(* C4: a pointer left of the leftmost span of its row resolves to offset 0 *)
(* of that span, a pointer right of the rightmost span of its row to that  *)
(* span's end offset, whatever the direction bits and the start flag.      *)
C4_RowMargins ==
    (asked /\ inViewport) =>
        \A i \in row :
            /\ ( /\ \A j \in row \ {i} : rectOf(i).left < rectOf(j).left
                 /\ q.x < rectOf(i).left )
               => res = Point(i, 0)
            /\ ( /\ \A j \in row \ {i} : rectOf(i).right > rectOf(j).right
                 /\ q.x > rectOf(i).right )
               => res = Point(i, layer[i].len)

\* spans i and j are neighbours in their row, in one block, and the pointer
\* is in the gap between them
sameBlockGutter(i, j) ==
    /\ i \in row /\ j \in row /\ i # j
    /\ rectOf(i).right < q.x /\ q.x < rectOf(j).left
    /\ \A k \in row \ {i, j} :
          ~(rectOf(i).left <= rectOf(k).left /\ rectOf(k).left <= rectOf(j).left)
    /\ layoutBlockOf(rectOf(i), q.layoutBlocks) # Null
    /\ layoutBlockOf(rectOf(i), q.layoutBlocks) = layoutBlockOf(rectOf(j), q.layoutBlocks)
    /\ inNoSpan

(* C5: in the gap between two neighbouring spans of one row and one block  *)
(* the result is the end of the left span left of the midpoint of the gap  *)
(* and the start of the right span right of it: one flip, at the midpoint. *)
C5_GutterMidpoint ==
    (asked /\ inViewport) =>
        \A i \in spanIds : \A j \in spanIds :
            sameBlockGutter(i, j) =>
                /\ 2 * q.x < rectOf(i).right + rectOf(j).left
                      => res = Point(i, layer[i].len)
                /\ 2 * q.x > rectOf(i).right + rectOf(j).left
                      => res = Point(j, 0)
                /\ res \in {Point(i, layer[i].len), Point(j, 0)}

\* the two-column page: a line at x in [0,300] and a line at x in [400,700]
\* on one row, the pointer in the column gap at x = 350, no selection,
\* direction bits RIGHT and DOWN
twoColumnGap ==
    /\ asked
    /\ layer \in { <<LeftLine, RightLine>>, <<RightLine, LeftLine>> }
    /\ q.x = 350 /\ row = spanIds
    /\ q.selRect = Null
    /\ q.direction = RIGHT + DOWN

rightColumn == CHOOSE i \in spanIds : layer[i] = RightLine

----------------------------------------------------------------------------
(* Claims on getPreferredTextNode1.                                        *)

askedPreferred == q.fn = "getPreferredTextNode1"

\* spans i and j are neighbours in their row, each in a block of the list
\* handed to the resolver, in two different blocks, and the pointer is in
\* the gap between them
crossBlockGutter(i, j) ==
    /\ i \in row /\ j \in row /\ i # j
    /\ rectOf(i).right < q.x /\ q.x < rectOf(j).left
    /\ \A k \in row \ {i, j} :
          ~(rectOf(i).left <= rectOf(k).left /\ rectOf(k).left <= rectOf(j).left)
    /\ layoutBlockOf(rectOf(i), q.layoutBlocks) # Null
    /\ layoutBlockOf(rectOf(j), q.layoutBlocks) # Null
    /\ layoutBlockOf(rectOf(i), q.layoutBlocks) # layoutBlockOf(rectOf(j), q.layoutBlocks)
    /\ inNoSpan

\* twice the midpoint between the left block's right edge and the right
\* block's left edge
blockEdgeMidpoint2(i, j) ==
    layoutBlockOf(rectOf(i), q.layoutBlocks)[1].right
        + layoutBlockOf(rectOf(j), q.layoutBlocks)[1].left

\* the flip at the midpoint of the block edges
flipsAtBlockEdges(i, j) ==
    /\ res.kind = "point" /\ res.span \in {i, j}
    /\ 2 * q.x < blockEdgeMidpoint2(i, j) => res.span = i
    /\ 2 * q.x > blockEdgeMidpoint2(i, j) => res = Point(j, 0)

C9_NeverThrows ==
    (askedPreferred /\ q.layoutBlocks = computeLayoutBlocks(layer))
        => res.kind \in {"point", "null"}

----------------------------------------------------------------------------
(* Claims on the viewer's selection controller.                            *)

(* C8: a pointer-down or pointer-move handler whose resolutions all        *)
(* returned null leaves the host's selection as it was.                    *)
C8_NullLeavesSelection ==
    [][ (ev'.type \in {"mousedown", "mousemove"} /\ ev'.resolved = {"null"})
            => sel' = sel ]_vars

(* C10: after the pointer-up of a plain click (primary button, no shift    *)
(* key, no move past the drag threshold) the host's selection is a         *)
(* collapsed caret.                                                        *)
C10_ClickLeavesCaret ==
    (ev.type = "mouseup" /\ ev.click)
        => (sel # Null /\ sel[1].anchor = sel[1].focus)

\* the gesture in progress: the session of the latest pointer-down
gesture == sessions[Len(sessions)]

\* the pointer at p has not moved MIND pixels from where session s started
belowThreshold(s, p) ==
    (p[1] - s.startX) * (p[1] - s.startX) + (p[2] - s.startY) * (p[2] - s.startY)
        < MIND * MIND

(* C11: a pointer-move of a gesture that has not yet passed the drag       *)
(* threshold is ignored: no point is resolved, and the host selection and  *)
(* the sessions (their dragging flags included) stay as they are.          *)
C11_BelowThresholdIgnored ==
    [][ \A p \in Pointers, c \in CaretChoices :
          ( /\ Len(sessions) > 0
            /\ ~gesture.isDragging
            /\ belowThreshold(gesture, p)
            /\ ev'.type = "mousemove"
            /\ MouseMoveAt(p, c) )
          => (sel' = sel /\ sessions' = sessions /\ ev'.resolved = {}) ]_vars

\* the same with one session listening
C11_OneSessionIgnored ==
    [][ \A p \in Pointers, c \in CaretChoices :
          ( /\ Len(sessions) = 1
            /\ ~gesture.isDragging
            /\ belowThreshold(gesture, p)
            /\ ev'.type = "mousemove"
            /\ MouseMoveAt(p, c) )
          => (sel' = sel /\ sessions' = sessions /\ ev'.resolved = {}) ]_vars

(* C12: at most one drag session is listening on the window at any       *)
(* moment: a pointer-down ends the session an earlier pointer-down opened. *)
C12_OneSessionListening == Len(sessions) <= 1

\* the anchor a resolution at the pointer p of a move would give: start
\* flag set, direction bits of the move, the blocks of the layer, no selection
anchorAtPointer(p, c) ==
    findClosestTextNode(layer, p[1], p[2], TRUE,
                        directionOf(p[1] - gesture.startX, p[2] - gesture.startY),
                        viewerComputeLayoutBlocks(layer), Null, c)

(* C13: a pointer-move past the drag threshold that finds the host         *)
(* selection without a range resolves the anchor at the pointer's current  *)
(* position with the start flag set and, when that gives a node, the       *)
(* selection's anchor is that point when the move has been handled.        *)
C13_AnchorAtPointer ==
    [][ \A p \in Pointers, c \in CaretChoices :
          ( /\ Len(sessions) = 1
            /\ sel = Null
            /\ ~belowThreshold(gesture, p)
            /\ ev'.type = "mousemove"
            /\ MouseMoveAt(p, c)
            /\ hasNode(anchorAtPointer(p, c)) )
          => ( /\ sel' # Null
               /\ sel'[1].anchor = Boundary(anchorAtPointer(p, c).span,
                                            anchorAtPointer(p, c).offset) ) ]_vars

\* what a pointer-down at p resolves: start flag set, no direction bits,
\* the viewer's block list, the host's selection
downPoint(p, c) == findClosestTextNode(layer, p[1], p[2], TRUE, 0, blocks, sel, c)

\* a primary pointer-down with the shift key on an existing selection
\* whose point resolves
shiftClick(detail, p, c) ==
    /\ sel # Null
    /\ ev'.type = "mousedown" /\ ev'.shiftKey
    /\ MouseDownAt(0, detail, TRUE, p, c)
    /\ hasNode(downPoint(p, c))

\* the selection keeps its anchor, its focus is the resolved point, and no
\* session is opened
extended(p, c) ==
    /\ sel' = Selection(sel[1].anchor,
                        Boundary(downPoint(p, c).span, downPoint(p, c).offset))
    /\ sessions' = sessions

extensionPoint(p, c) ==
    findClosestTextNode(layer, p[1], p[2], FALSE, 0,
                        viewerComputeLayoutBlocks(layer), sel, c)

\* a double click whose anchor resolves leaves the word around the anchor
\* selected and a session listening
doubleClickSelectsWord ==
    \A shiftKey \in BOOLEAN, p \in Pointers, c \in CaretChoices :
        ( /\ ev'.type = "mousedown" /\ ev'.detail = 2
          /\ MouseDownAt(0, 2, shiftKey, p, c)
          /\ hasNode(downPoint(p, c)) )
        => ( /\ sel' = selectWordAtNode(layer, downPoint(p, c).span,
                                        downPoint(p, c).offset, sel)
             /\ sel' # Null
             /\ sessions' = Append(sessions, Session(p[1], p[2], "word")) )

\* a move of that gesture past the threshold keeps the anchor and moves
\* the focus to the resolved extension point
dragExtendsWord ==
    \A p \in Pointers, c \in CaretChoices :
        ( /\ Len(sessions) > 0
          /\ gesture.opened = "word"
          /\ sel # Null
          /\ ~belowThreshold(gesture, p)
          /\ ev'.type = "mousemove"
          /\ MouseMoveAt(p, c)
          /\ hasNode(extensionPoint(p, c)) )
        => sel' = Selection(sel[1].anchor,
                            Boundary(extensionPoint(p, c).span,
                                     extensionPoint(p, c).offset))

(* C15: a double click whose anchor resolves selects the word run around   *)
(* the anchor and opens a drag session, and a later pointer-move of that   *)
(* gesture past the drag threshold moves the selection's focus to the      *)
(* resolved extension point, the anchor kept.                              *)
C15_WordThenDrag == [][ doubleClickSelectsWord /\ dragExtendsWord ]_vars

\* a drag that began with a double click in the first span has moved the
\* focus into another span
C15_Witness ==
    /\ ev.type = "mousemove"
    /\ Len(sessions) = 1
    /\ sessions[1].opened = "word" /\ sessions[1].isDragging
    /\ sel # Null
    /\ sel[1].anchor.span = 1
    /\ sel[1].focus.span > 1

\* the class of the character a code unit belongs to: word (a letter,
\* digit or underscore) or not
wordClass(text, k) == text[k] \in {"word", "hi", "lo"}

\* the index of the anchor character's code unit: the one at the offset,
\* the last one for an offset at the end of the text
anchorUnit == IF q.offset >= Len(q.text) THEN Len(q.text) ELSE q.offset + 1

\* units i..j of the text are of the anchor character's class
sameClassRun(i, j) ==
    \A k \in i..j : wordClass(q.text, k) = wordClass(q.text, anchorUnit)

\* the first and the last code unit of the maximal run around the anchor
runFirst ==
    CHOOSE i \in 1..anchorUnit :
        sameClassRun(i, anchorUnit) /\ (i = 1 \/ ~sameClassRun(i - 1, anchorUnit))

runLast ==
    CHOOSE j \in anchorUnit..Len(q.text) :
        sameClassRun(anchorUnit, j)
            /\ (j = Len(q.text) \/ ~sameClassRun(anchorUnit, j + 1))

(* C16: selectWordAtNode selects exactly the maximal contiguous run of     *)
(* characters around the anchor character that are of the anchor           *)
(* character's class (letter, digit or underscore; or anything else).      *)
C16_MaximalRun ==
    q.fn = "selectWordAtNode" =>
        sel = Selection(Boundary(1, runFirst - 1), Boundary(1, runLast))

\* the same for texts of the basic plane
C16_BasicPlaneRun ==
    (q.fn = "selectWordAtNode" /\ \A k \in 1..Len(q.text) : q.text[k] \in {"word", "other"})
        => sel = Selection(Boundary(1, runFirst - 1), Boundary(1, runLast))

\* an anchor inside "Hello" selects "Hello", an anchor on the comma selects
\* the comma and the blank
C16_HelloWorld ==
    (q.fn = "selectWordAtNode" /\ q.text = HelloWorld)
        => /\ q.offset \in 0..4 => sel = Selection(Boundary(1, 0), Boundary(1, 5))
           /\ q.offset \in 5..6 => sel = Selection(Boundary(1, 5), Boundary(1, 7))

(* C17: a pointer-down with a button other than the primary one leaves    *)
(* the host selection as it is and registers no session.                   *)
C17_OtherButtonIgnored ==
    [][ (ev'.type = "mousedown" /\ ev'.button # 0)
          => (sel' = sel /\ sessions' = sessions /\ ev'.resolved = {}) ]_vars

\* a pointer-down with the secondary button on a page with a selection
C17_Witness ==
    /\ ev.type = "mousedown"
    /\ ev.button = 2
    /\ sel # Null

\* the five inputs of the two calls are equal: pointer, block list, box of
\* the host's selection, direction bits, start flag; and the page's caret
\* primitive answers the pointer as it did
sameInputs(a, b) ==
    /\ a.x = b.x /\ a.y = b.y
    /\ a.layoutBlocks = b.layoutBlocks
    /\ a.selRect = b.selRect
    /\ a.direction = b.direction
    /\ a.start = b.start
    /\ a.caret = b.caret

\* the step is a call of the resolver
resolverCalled == q' # q \/ res' # res

blocksComputed == computed' /\ (~computed \/ memo' # memo)

minimalBoxOf(u, a, b) ==
    /\ u.left = Min(a.left, b.left) /\ u.top = Min(a.top, b.top)
    /\ u.right = Max(a.right, b.right) /\ u.bottom = Max(a.bottom, b.bottom)
    /\ containsRect(u, a) /\ containsRect(u, b)
    /\ \A c \in GeoBoxes :
          (containsRect(c, a) /\ containsRect(c, b)) => containsRect(c, u)

(* C20: union(a, b) of two boxes is the minimal box containing both, and a *)
(* null operand is the identity: union(null, box) and union(box, null)     *)
(* return the box as it is.                                                *)
C20_UnionMinimalBox ==
    q.fn = "union" =>
        /\ q.a = Null => res = q.b
        /\ q.b = Null => res = q.a
        /\ (q.a # Null /\ q.b # Null)
              => (res # Null /\ minimalBoxOf(res[1], q.a[1], q.b[1]))

\* a union of two boxes that is neither of them, and a union with null
C20_Witness ==
    /\ q.fn = "union"
    /\ \/ q.a # Null /\ q.b # Null /\ res # q.a /\ res # q.b
       \/ q.a = Null /\ q.b # Null /\ res = q.b

\* the point (x, y) lies in the box, its edges included
inBox(r, x, y) ==
    /\ r.left <= x /\ x <= r.right
    /\ r.top <= y /\ y <= r.bottom

\* the two boxes have a point in common, edges and corners included
commonPoint(a, b) ==
    \E x \in GeoXs, y \in GeoYs : inBox(a, x, y) /\ inBox(b, x, y)

\* two boxes have a point in common, whatever their coordinates
commonPoint2(a, b) ==
    /\ Max(a.left, b.left) <= Min(a.right, b.right)
    /\ Max(a.top, b.top) <= Min(a.bottom, b.bottom)

(* C21: intersect(a, b) returns null exactly when an operand is null or    *)
(* the boxes have no common point, edges included; otherwise it returns    *)
(* the overlap box (greatest left and top, least right and bottom), so two *)
(* boxes that only touch give a box of zero width or zero height.          *)
C21_IntersectOverlap ==
    q.fn = "intersect" =>
        /\ res = Null <=> (q.a = Null \/ q.b = Null \/ ~commonPoint(q.a[1], q.b[1]))
        /\ res # Null =>
              /\ res[1] = Rect(Max(q.a[1].left, q.b[1].left), Max(q.a[1].top, q.b[1].top),
                               Min(q.a[1].right, q.b[1].right),
                               Min(q.a[1].bottom, q.b[1].bottom))
              /\ \A x \in GeoXs, y \in GeoYs :
                    inBox(res[1], x, y) <=> (inBox(q.a[1], x, y) /\ inBox(q.b[1], x, y))

\* two boxes with area that touch along an edge, or at a corner, and their
\* overlap without area
C21_Witness ==
    /\ q.fn = "intersect"
    /\ q.a # Null /\ q.b # Null
    /\ width(q.a[1]) > 0 /\ height(q.a[1]) > 0
    /\ width(q.b[1]) > 0 /\ height(q.b[1]) > 0
    /\ q.a[1].right = q.b[1].left
    /\ res # Null
    /\ width(res[1]) = 0

(* C22: contains(outer, inner) is true if and only if both boxes are not   *)
(* null and inner's four edges lie within outer's bounds, these included:  *)
(* every box contains itself, a box that overlaps and protrudes is not     *)
(* contained, and with a null operand nothing is contained.                *)
C22_ContainsEdges ==
    q.fn = "contains" =>
        /\ res <=> ( /\ q.a # Null /\ q.b # Null
                     /\ q.a[1].left <= q.b[1].left /\ q.b[1].left <= q.a[1].right
                     /\ q.a[1].left <= q.b[1].right /\ q.b[1].right <= q.a[1].right
                     /\ q.a[1].top <= q.b[1].top /\ q.b[1].top <= q.a[1].bottom
                     /\ q.a[1].top <= q.b[1].bottom /\ q.b[1].bottom <= q.a[1].bottom )
        /\ (q.a # Null /\ q.a = q.b) => res
        /\ (q.a = Null \/ q.b = Null) => ~res
        /\ (q.a # Null /\ q.b # Null) =>
              ( res <=> \A x \in GeoXs, y \in GeoYs :
                          inBox(q.b[1], x, y) => inBox(q.a[1], x, y) )

\* a box found to contain itself, and an overlapping box that protrudes
\* found not contained
C22_Witness ==
    /\ q.fn = "contains"
    /\ q.a # Null /\ q.b # Null
    /\ \/ q.a = q.b /\ width(q.a[1]) > 0 /\ res
       \/ /\ commonPoint(q.a[1], q.b[1])
          /\ q.b[1].right > q.a[1].right
          /\ ~res

----------------------------------------------------------------------------
(* Claims on the candidates of the resolver's strategies.                  *)

\* the pointer is over no span: the direct hit gives nothing
inFallback == asked /\ inViewport /\ inNoSpan /\ Len(layer) > 0

blockIds == 1..Len(q.layoutBlocks)

\* block k holds at least one span
holdsSpan(k) == \E i \in spanIds : containsRect(q.layoutBlocks[k], rectOf(i))

\* the blocks under the pointer that hold a span
pointerBlocks ==
    { k \in blockIds : containsCoord(Some(q.layoutBlocks[k]), q.x, q.y) /\ holdsSpan(k) }

\* the blocks the box of the host's selection intersects
selectionBlocks ==
    { k \in blockIds : isIntersect(Some(q.layoutBlocks[k]), q.selRect) }

\* the result is a point on a span contained in block k
resultInBlock(k) ==
    res.kind = "point" /\ containsRect(q.layoutBlocks[k], rectOf(res.span))

\* the result is a point on a span no span is nearer than
resultNearestOfAll ==
    /\ res.kind = "point"
    /\ \A j \in spanIds :
          distance(rectOf(res.span), q.x, q.y, WeightAll)
              <= distance(rectOf(j), q.x, q.y, WeightAll)

\* the pointer is in a block: the result is in a block under the pointer
inPointerBlock ==
    pointerBlocks # {} => \E k \in pointerBlocks : resultInBlock(k)

\* else the selection's box intersects a block: the result is in a block
\* the selection intersects
inSelectionBlock ==
    (pointerBlocks = {} /\ selectionBlocks # {})
        => \E k \in selectionBlocks : resultInBlock(k)

\* else the result is chosen among all spans
amongAllSpans ==
    (pointerBlocks = {} /\ selectionBlocks = {}) => resultNearestOfAll

(* C23: without a direct hit the candidates are chosen in priority order:  *)
(* with the pointer inside a block that holds a span the result is a span  *)
(* contained in that block; otherwise, with the box of the host's          *)
(* selection intersecting a block, the result is a span contained in that  *)
(* block; only when neither applies a span is chosen among all spans.      *)
C23_CandidatePriority ==
    inFallback => (inPointerBlock /\ inSelectionBlock /\ amongAllSpans)

\* the first rule alone
C23_PointerBlockFirst == inFallback => inPointerBlock

\* the third rule alone
C23_AllSpansLast == inFallback => amongAllSpans

----------------------------------------------------------------------------
(* Claims on the scan of computeLayoutBlocks, on the layer.                *)

\* the scan's block list after the first n spans: the closed blocks, then
\* the current block
scanOf(n) == scanSpans(SubSeq(layer, 1, n), 1, Null, << >>)

\* span n has area and meets a current block
meetsCurrent(n) ==
    /\ width(rectOf(n)) # 0 /\ height(rectOf(n)) # 0
    /\ scanOf(n - 1) # << >>

\* the current block span n meets
currentBefore(n) == scanOf(n - 1)[Len(scanOf(n - 1))]

\* the blocks closed before span n
closedBefore(n) == SubSeq(scanOf(n - 1), 1, Len(scanOf(n - 1)) - 1)

\* span n was merged into the current block
mergedAt(n) ==
    scanOf(n) = Append(closedBefore(n), unionRect(currentBefore(n), rectOf(n)))

\* span n closed the current block and started a new one
closedAt(n) ==
    /\ scanOf(n) # Append(closedBefore(n), unionRect(currentBefore(n), rectOf(n)))
    /\ scanOf(n)[Len(scanOf(n))] = rectOf(n)
    /\ \/ scanOf(n) = closedBefore(n) \o << currentBefore(n), rectOf(n) >>
       \/ /\ Len(scanOf(n)) = Len(closedBefore(n)) + 1
          /\ closedBefore(n) # << >>

\* the top edge of r is no more than the gap away from the bottom edge of
\* cur, above or below
withinGap(cur, r) == Abs(r.top - cur.bottom) <= VGap

\* one of the horizontal signals holds: left edges nearly equal, right
\* edges nearly equal, r starts just right of cur, the edges straddle, or
\* the boxes intersect
alignmentSignal(cur, r) ==
    \/ Abs(r.left - cur.left) < AlignGap
    \/ Abs(r.right - cur.right) < AlignGap
    \/ (0 < r.left - cur.right /\ r.left - cur.right < LineGap)
    \/ (cur.left < r.left /\ cur.right > r.right)
    \/ (cur.left > r.left /\ cur.right < r.right)
    \/ commonPoint2(cur, r)

(* C24: during the scan a span is merged into the current block only if    *)
(* its top edge is within the gap of the current block's bottom edge,      *)
(* above or below, and a horizontal alignment or overlap signal holds; a   *)
(* span whose top edge is farther than the gap above or below the current  *)
(* block's bottom edge closes the current block and starts a new one.      *)
C24_MergeCriteria ==
    computed =>
        \A n \in 2..Len(layer) :
            meetsCurrent(n) =>
                /\ mergedAt(n) => ( /\ withinGap(currentBefore(n), rectOf(n))
                                    /\ alignmentSignal(currentBefore(n), rectOf(n)) )
                /\ ~withinGap(currentBefore(n), rectOf(n)) => closedAt(n)

\* the same with the gap counted downwards only: a span whose top edge is
\* the gap or more below the current block's bottom edge closes the block
C24_GapBelowOnly ==
    computed =>
        \A n \in 2..Len(layer) :
            meetsCurrent(n) =>
                /\ mergedAt(n) => ( /\ rectOf(n).top - currentBefore(n).bottom < VGap
                                    /\ alignmentSignal(currentBefore(n), rectOf(n)) )
                /\ rectOf(n).top - currentBefore(n).bottom >= VGap => closedAt(n)

\* a span aligned with the current block whose top edge is 60 above the
\* block's bottom edge was merged into it
C24_MergedFromAbove ==
    /\ computed
    /\ Len(layer) = 2
    /\ rectOf(1) = Rect(0, 40, 24, 60) /\ rectOf(2) = Rect(0, 0, 24, 20)
    /\ blocks = << Rect(0, 0, 24, 60) >>
    /\ mergedAt(2)

----------------------------------------------------------------------------
(* Claims on the offset of the nearest-span scan.                          *)

\* the end of the span the result is on if the pointer is below the span
\* or right of it, else its start
endIfBelowOrRight ==
    /\ res.kind = "point"
    /\ res.offset = IF q.x >= rectOf(res.span).right \/ q.y >= rectOf(res.span).bottom
                    THEN layer[res.span].len ELSE 0

\* getSelectNodeBy answers by the scan for the nearest of all spans: no
\* span and no block under the pointer, no host selection
nearestOfAllPicks ==
    /\ inFallback
    /\ pointerBlocks = {}
    /\ q.selRect = Null

(* C25: a span picked by the scan for the nearest span resolves to the     *)
(* span's end offset if the pointer is below the span or right of it and   *)
(* to offset 0 otherwise, as long as no direction bit adjusts it.          *)
C25_EndIfBelowOrRight ==
    (nearestOfAllPicks /\ q.direction = 0) => endIfBelowOrRight

\* the same for a pointer that is not right of the span picked
C25_EndIfBelow ==
    (nearestOfAllPicks /\ q.direction = 0 /\ res.kind = "point"
        /\ q.x < rectOf(res.span).right) => endIfBelowOrRight

\* the scan of getPreferredTextNode1, which answers when the pointer's row
\* holds no span
C25_PreferredScan ==
    (askedPreferred /\ Len(layer) > 0 /\ row = {} /\ res.kind = "point")
        => endIfBelowOrRight

----------------------------------------------------------------------------
(* Claims on the first resolution of a drag in a gap between two blocks.   *)

\* the pointer is in the gap between row neighbours i and j of two blocks,
\* not nearer to the right block than to the left one, the host has no
\* selection
leftOfBlockMidpoint(i, j) ==
    /\ crossBlockGutter(i, j)
    /\ q.selRect = Null
    /\ 2 * q.x <= blockEdgeMidpoint2(i, j)

\* the first resolution of a drag that goes down
firstAndDown == q.start /\ hasBit(q.direction, DOWN)

----------------------------------------------------------------------------
(* Claims on a host without a caret primitive.                             *)

\* the pointer is strictly inside the box of span i, which has area, and
\* inside no other span's box; the host has no caret primitive
insideWithoutPrimitive(i) ==
    /\ asked /\ inViewport
    /\ ~q.caret.api
    /\ width(rectOf(i)) > 0 /\ height(rectOf(i)) > 0
    /\ strictlyInside(rectOf(i), q.x, q.y)
    /\ \A j \in spanIds \ {i} : ~containsCoord(Some(rectOf(j)), q.x, q.y)

(* C27: on a host without a caret primitive a pointer inside a span's box  *)
(* resolves to that span by the midpoint test: offset 0 left of the box's  *)
(* horizontal centre, the end offset otherwise, at the centre included;    *)
(* the result is never null and never an error.                            *)
C27_MidpointTest ==
    \A i \in spanIds :
        insideWithoutPrimitive(i)
            => res = Point(i, IF 2 * q.x < rectOf(i).left + rectOf(i).right
                              THEN 0 ELSE layer[i].len)

\* the same away from the centre, and a point on the span at the centre
C27_MidpointOffCentre ==
    \A i \in spanIds :
        insideWithoutPrimitive(i)
            => /\ res.kind = "point" /\ res.span = i
               /\ 2 * q.x < rectOf(i).left + rectOf(i).right => res.offset = 0
               /\ 2 * q.x > rectOf(i).left + rectOf(i).right => res.offset = layer[i].len

\* a pointer at the centre of the only span resolved to the span's start
C27_CentreIsStart ==
    /\ layer = << W1 >>
    /\ insideWithoutPrimitive(1)
    /\ q.x = 50
    /\ res = Point(1, 0)

----------------------------------------------------------------------------
(* Claims on the end of a gesture and on its dragging flag.                *)

(* C28: pointer-up ends the gesture whether or not the drag threshold was  *)
(* passed: it leaves no session listening, and while none is listening,    *)
(* that is until the next pointer-down, a pointer-move changes neither the *)
(* host selection nor the sessions and resolves nothing.                   *)
C28_PointerUpEndsGesture ==
    [][ /\ ev'.type = "mouseup" => sessions' = << >>
        /\ (sessions = << >> /\ ev'.type = "mousemove")
              => (sel' = sel /\ sessions' = << >> /\ ev'.resolved = {}) ]_vars

\* a pointer-move after the pointer-up of a gesture that left text selected
C28_Witness ==
    /\ ev.type = "mousemove"
    /\ sessions = << >>
    /\ sel # Null
    /\ sel[1].anchor # sel[1].focus

\* the move to p is handled by the gesture's session as a drag: the flag
\* stays set, a point is resolved, and a resolved point becomes the focus
\* of the selection
handledAsDrag(p, c) ==
    /\ Len(sessions') = Len(sessions)
    /\ sessions'[Len(sessions)].isDragging
    /\ ev'.resolved # {}
    /\ (sel # Null /\ hasNode(extensionPoint(p, c)))
          => sel' = Selection(sel[1].anchor,
                              Boundary(extensionPoint(p, c).span,
                                       extensionPoint(p, c).offset))

(* C30: within a gesture the dragging flag is monotonic: once a            *)
(* pointer-move has set it, every later pointer-move of the gesture is     *)
(* resolved and applied and leaves it set, also when the pointer is back   *)
(* within the threshold of the pointer-down position.                      *)
C30_DraggingStaysSet ==
    [][ \A p \in Pointers, c \in CaretChoices :
          ( /\ Len(sessions) > 0
            /\ gesture.isDragging
            /\ ev'.type = "mousemove"
            /\ MouseMoveAt(p, c) )
          => handledAsDrag(p, c) ]_vars

\* a dragging gesture whose pointer came back to the pointer-down position
\* and moved the focus of the selection there
C30_Witness ==
    /\ ev.type = "mousemove"
    /\ ev.resolved = {"point"}
    /\ Len(sessions) = 1
    /\ sessions[1].isDragging
    /\ sessions[1].startX = 150 /\ sessions[1].startY = 10
    /\ sel # Null
    /\ sel[1].anchor.span = 1 /\ sel[1].anchor.offset = 0
    /\ sel[1].focus.span = 1 /\ sel[1].focus.offset = 1

----------------------------------------------------------------------------
(* Claims on the blocks and the spans they hold.                           *)

\* span i has area
hasArea(i) == width(rectOf(i)) # 0 /\ height(rectOf(i)) # 0

(* C29: every span with non-zero width and non-zero height is contained in *)
(* at least one block of the list computeLayoutBlocks returns for its      *)
(* layer, so layoutBlockOf does not return null for it.                    *)
C29_EverySpanInABlock ==
    computed =>
        \A i \in spanIds :
            hasArea(i) =>
                /\ \E k \in 1..Len(blocks) : contains(Some(blocks[k]), Some(rectOf(i)))
                /\ layoutBlockOf(rectOf(i), blocks) # Null

\* three spans with area in two blocks, one of them grown by a merge and
\* holding two spans
C29_Witness ==
    /\ computed
    /\ Len(layer) = 3
    /\ \A i \in spanIds : hasArea(i)
    /\ Len(blocks) = 2
    /\ \E k \in 1..2 : \A i \in spanIds : blocks[k] # rectOf(i)
    /\ \A i \in spanIds : layoutBlockOf(rectOf(i), blocks) # Null

====
